---- MODULE Spec2Model ----
(***************************************************************************)
(* Model of the wikipedia-extractor repository.                            *)
(*                                                                         *)
(*   src/src/extract_wikipedia.py  the Article Fetcher: main, run, scrape, *)
(*                                 to_file, read_txt                       *)
(*   src/src/query_wikidata.py     the Name Resolver: fetch, extract, save *)
(*                                 and process_citynames_for_language      *)
(*                                                                         *)
(* Three specifications share the module: SpecFetcher (one run of the      *)
(* Article Fetcher), SpecResolver (one run of the Name Resolver) and       *)
(* SpecRoundTrip (a Name List written one name per line and read back).    *)
(*                                                                         *)
(* A Python string is a sequence of characters; a file is a sequence of    *)
(* bytes (two hex digits each) or absent.  A JSON value is a tagged record *)
(* with the same fields whatever its type.                                 *)
(***************************************************************************)
EXTENDS Naturals, Sequences, FiniteSets, TLC

VARIABLES
  \* ---- Article Fetcher (extract_wikipedia.py)
  fileList,        \* the rows main() reads from the city list file
  citydistlist,    \* the list run() works on (after main's truncation)
  output_format,   \* the output mode given on the command line
  runpc,           \* "main", "running", "aborting", "aborted", "done"
  admitted,        \* how many entries run_on_each has started a task for
  taskpc,          \* per entry: "pending", "awaitGet", "done", "raised", "cancelled"
  results,         \* per entry: what scrape returned (NoResult until it returns)
  gets,            \* per entry: number of GET requests sent
  got,             \* per entry: the outcome of its GET (NoOutcome until it arrives)
  opens,           \* per entry: number of times its task opened an output file
  dirs,            \* the directories under ../data/districts that exist
  created,         \* the directories this run created
  files,           \* path -> [exists, content]
  writes,          \* path -> number of times the run opened it for writing
  printed,         \* the timing summary has been printed
  warned,          \* logging.warning("Output format not valid!") was called
  \* ---- Name Resolver (query_wikidata.py)
  rpc,             \* "start", "fetched", "extracted", "done", "raised"
  fetchKind,       \* what the graph endpoint did
  data,            \* what fetch_citynames_for_language returned
  cityname_list,   \* what extract_citynames returned
  outfile,         \* ../data/<language_code>_citynames.txt
  outfile0,        \* that file before the run
  rlog,            \* the levels the process logged at
  \* ---- platform
  localeEnc,       \* the encoding open() uses when none is given
  linesep,         \* os.linesep
  \* ---- round trip
  rtpc,            \* "start", "written", "read"
  rtNames,         \* the Name List written
  rtWriter,        \* "save_citynames" or "to_file"
  rtFile,          \* the file written
  rtRead           \* what read_txt returned

fetcherVars == <<fileList, citydistlist, output_format, runpc, admitted, taskpc,
                 results, gets, got, opens, dirs, created, files, writes,
                 printed, warned>>
resolverVars == <<rpc, fetchKind, data, cityname_list, outfile, outfile0, rlog>>
platformVars == <<localeEnc, linesep>>
roundTripVars == <<rtpc, rtNames, rtWriter, rtFile, rtRead>>
vars == <<fetcherVars, resolverVars, platformVars, roundTripVars>>

(***************************************************************************)
(* Bounds.                                                                 *)
(***************************************************************************)
MaxNames == 2
MaxBindings == 2
MaxList == 2

(***************************************************************************)
(* JSON values, as json() returns them.                                    *)
(***************************************************************************)
JNull == [t |-> "null", s |-> <<>>, arr |-> <<>>, obj |-> <<>>]
JStr(s) == [t |-> "str", s |-> s, arr |-> <<>>, obj |-> <<>>]
JArr(items) == [t |-> "arr", s |-> <<>>, arr |-> items, obj |-> <<>>]
JObj(pairs) == [t |-> "obj", s |-> <<>>, arr |-> <<>>, obj |-> pairs]

\* The outcome of an expression: a value, or an exception.
Val(v) == [raised |-> FALSE, exc |-> "", v |-> v]
Exc(e) == [raised |-> TRUE, exc |-> e, v |-> JNull]

\* d[k] of Python: the value under key k of a dict, KeyError without the key,
\* TypeError when d is None or a number; a str or a list takes no str index.
Subscript(d, k) ==
  IF d.t = "obj"
  THEN IF \E i \in 1..Len(d.obj) : d.obj[i][1] = k
       THEN Val(d.obj[CHOOSE i \in 1..Len(d.obj) : d.obj[i][1] = k][2])
       ELSE Exc("KeyError")
  ELSE Exc("TypeError")

\* bool(d) of Python is False: None, an empty container or string.
Falsy(d) ==
  \/ d.t = "null"
  \/ d.t = "obj" /\ d.obj = <<>>
  \/ d.t = "arr" /\ d.arr = <<>>
  \/ d.t = "str" /\ d.s = <<>>

(***************************************************************************)
(* The Article Fetcher: src/src/extract_wikipedia.py                       *)
(***************************************************************************)
Names == {"Paris", "Lyon"}
Formats == {"html", "text", "xml"}
NoTitle == ""

\* os.path.join("../data/districts", title), as the title it is named after.
DirPath(title) == title

\* The path of a title's output file with the title's directory left out.
FilePathNoTitle(title, suffix) == <<NoTitle, NoTitle, suffix>>

\* os.path.join(path, f"{title}_html.txt") and os.path.join(path,
\* f"{title}_plain.txt"): <<directory, base name, suffix>>.
FilePath(title, suffix) == <<DirPath(title), title, suffix>>

Suffixes == {"_html.txt", "_plain.txt"}
AllPaths == {<<t, t, x>> : t \in Names \cup {NoTitle}, x \in Suffixes}

\* The if/elif/else over output_format with the else branch taken as text.
ModeOfDefaultText(fmt) == IF fmt = "html" THEN "html" ELSE "text"

\* The branch of scrape's if/elif/else that output_format selects.
ModeOf(fmt) ==
  IF fmt = "html" THEN "html" ELSE IF fmt = "text" THEN "text" ELSE "invalid"

SuffixOf(fmt) == IF ModeOf(fmt) = "html" THEN "_html.txt" ELSE "_plain.txt"

\* path.endswith('.txt')
EndsWithTxt(path) == path[3] \in {"_html.txt", "_plain.txt"}

NoResult == [raised |-> FALSE, exc |-> "none", v |-> JNull]
NoOutcome == [kind |-> "none", text |-> <<>>, json |-> Exc("none")]
TransportError == [kind |-> "error", text |-> <<>>, json |-> Exc("none")]
Response(text, json) == [kind |-> "response", text |-> text, json |-> json]

Extract == <<"Paris is the capital...">>
PagesBody(pages) ==
  Val(JObj(<< <<"query", JObj(<< <<"pages", pages>> >>)>> >>))
OnePage(extract) ==
  JObj(<< <<"1", JObj(<< <<"extract", extract>> >>)>> >>)

\* What the transport can hand back for one GET.
GetOutcomes ==
  { TransportError,
    \* {"query":{"pages":{"1":{"extract":"Paris is the capital..."}}}}
    Response(<<"{wellformed}">>, PagesBody(OnePage(JStr(Extract)))),
    \* a body that is not JSON
    Response(<<"<html>">>, Exc("JSONDecodeError")),
    \* {"query":{"pages":{"-1":{"missing":""}}}}: no extract key
    Response(<<"{missing}">>,
             PagesBody(JObj(<< <<"-1", JObj(<< <<"missing", JStr(<<>>)>> >>)>> >>))),
    \* {"query":{"pages":{}}}: zero subjects
    Response(<<"{nopages}">>, PagesBody(JObj(<<>>))),
    \* {"query":{"pages":{"1":{"extract":null}}}}: the extract is no string
    Response(<<"{nullextract}">>, PagesBody(OnePage(JNull))) }

\* Lines 122-123: pid = list(response.json()['query']['pages'].keys())[0];
\* response.json()['query']['pages'][pid]['extract'].
ExtractPlain(json) ==
  IF json.raised THEN json
  ELSE LET q == Subscript(json.v, "query") IN
    IF q.raised THEN q
    ELSE LET p == Subscript(q.v, "pages") IN
      IF p.raised THEN p
      ELSE IF p.v.t # "obj" THEN Exc("AttributeError")
      ELSE IF p.v.obj = <<>> THEN Exc("IndexError")
      ELSE LET page == Subscript(p.v, p.v.obj[1][1]) IN
        IF page.raised THEN page ELSE Subscript(page.v, "extract")

Tasks == 1..Len(citydistlist)

\* citydistlist[:test_n]
Prefix(list, n) == SubSeq(list, 1, IF n < Len(list) THEN n ELSE Len(list))

NameLists ==
  UNION {[1..n -> Names] : n \in 0..MaxNames}

InitFetcher ==
  /\ fileList \in NameLists
  /\ citydistlist = <<>>
  /\ output_format \in Formats
  /\ runpc = "main"
  /\ admitted = 0
  /\ taskpc = <<>>
  /\ results = <<>>
  /\ gets = <<>>
  /\ got = <<>>
  /\ opens = <<>>
  /\ dirs \in SUBSET Names
  /\ created = {}
  /\ files = [p \in AllPaths |-> [exists |-> FALSE, content |-> <<>>]]
  /\ writes = [p \in AllPaths |-> 0]
  /\ printed = FALSE
  /\ warned = FALSE

IdleFetcher ==
  /\ fileList = <<>>
  /\ citydistlist = <<>>
  /\ output_format = "text"
  /\ runpc = "idle"
  /\ admitted = 0
  /\ taskpc = <<>>
  /\ results = <<>>
  /\ gets = <<>>
  /\ got = <<>>
  /\ opens = <<>>
  /\ dirs = {}
  /\ created = {}
  /\ files = [p \in AllPaths |-> [exists |-> FALSE, content |-> <<>>]]
  /\ writes = [p \in AllPaths |-> 0]
  /\ printed = FALSE
  /\ warned = FALSE

\* The Article Fetcher touches nothing of the other two programs.
FrameF == UNCHANGED <<resolverVars, platformVars, roundTripVars>>

\* main(): read the list, truncate it when test_n is truthy, start run().
Main(test_n) ==
  /\ FrameF
  /\ runpc = "main"
  /\ citydistlist' = IF test_n # 0 THEN Prefix(fileList, test_n) ELSE fileList
  /\ runpc' = "running"
  /\ taskpc' = [i \in 1..Len(citydistlist') |-> "pending"]
  /\ results' = [i \in 1..Len(citydistlist') |-> NoResult]
  /\ gets' = [i \in 1..Len(citydistlist') |-> 0]
  /\ got' = [i \in 1..Len(citydistlist') |-> NoOutcome]
  /\ opens' = [i \in 1..Len(citydistlist') |-> 0]
  /\ UNCHANGED <<fileList, output_format, admitted, dirs, created, files,
                 writes, printed, warned>>

\* to_file(content, path) with dump=True, called by task i: the .txt check,
\* open(path, 'w') (which may fail), file.write(content) (a TypeError unless
\* content is a str), the isfile check; then scrape returns the response.
ToFile(i, content, path, openOk) ==
  IF ~EndsWithTxt(path)
  THEN /\ taskpc' = [taskpc EXCEPT ![i] = "done"]
       /\ results' = [results EXCEPT ![i] = Val(content)]
       /\ UNCHANGED <<files, writes, opens>>
  ELSE IF ~openOk
  THEN /\ taskpc' = [taskpc EXCEPT ![i] = "raised"]
       /\ results' = [results EXCEPT ![i] = Exc("OSError")]
       /\ UNCHANGED <<files, writes, opens>>
  ELSE /\ opens' = [opens EXCEPT ![i] = @ + 1]
       /\ writes' = [writes EXCEPT ![path] = @ + 1]
       /\ IF content.t = "str"
          THEN /\ files' = [files EXCEPT ![path] =
                              [exists |-> TRUE, content |-> content.s]]
               /\ taskpc' = [taskpc EXCEPT ![i] = "done"]
               /\ results' = [results EXCEPT ![i] = Val(content)]
          ELSE /\ files' = [files EXCEPT ![path] =
                              [exists |-> TRUE, content |-> <<>>]]
               /\ taskpc' = [taskpc EXCEPT ![i] = "raised"]
               /\ results' = [results EXCEPT ![i] = Exc("TypeError")]

\* run_on_each starts the task of the next entry; scrape runs to its first
\* await: the directory (lines 106-108), then the GET of the mode's branch, or
\* the ValueError of an unrecognized mode (lines 126-129).
ScrapeStart(i, mkOk) ==
  /\ FrameF
  /\ runpc = "running"
  /\ i = admitted + 1
  /\ i \in Tasks
  /\ admitted' = i
  /\ LET title == citydistlist[i]
         missing == DirPath(title) \notin dirs
     IN IF missing /\ ~mkOk
        THEN /\ taskpc' = [taskpc EXCEPT ![i] = "raised"]
             /\ results' = [results EXCEPT ![i] = Exc("OSError")]
             /\ UNCHANGED <<dirs, created, gets, warned>>
        ELSE /\ dirs' = dirs \cup {DirPath(title)}
             /\ created' = IF missing THEN created \cup {DirPath(title)} ELSE created
             /\ IF ModeOf(output_format) \in {"html", "text"}
                THEN /\ gets' = [gets EXCEPT ![i] = @ + 1]
                     /\ taskpc' = [taskpc EXCEPT ![i] = "awaitGet"]
                     /\ UNCHANGED <<results, warned>>
                ELSE /\ warned' = TRUE
                     /\ taskpc' = [taskpc EXCEPT ![i] = "raised"]
                     /\ results' = [results EXCEPT ![i] = Exc("ValueError")]
                     /\ UNCHANGED gets
  /\ UNCHANGED <<fileList, citydistlist, output_format, runpc, got, opens,
                 files, writes, printed>>

\* The GET of task i returns or raises; scrape runs to its end (lines 112-132).
ScrapeResume(i, outcome, openOk) ==
  /\ FrameF
  /\ runpc = "running"
  /\ i \in Tasks
  /\ taskpc[i] = "awaitGet"
  /\ got' = [got EXCEPT ![i] = outcome]
  /\ LET title == citydistlist[i]
         path == FilePath(title, SuffixOf(output_format))
     IN IF ModeOf(output_format) = "html"
        THEN IF outcome.kind = "error"
             THEN /\ taskpc' = [taskpc EXCEPT ![i] = "raised"]
                  /\ results' = [results EXCEPT ![i] = Exc("TransportError")]
                  /\ UNCHANGED <<files, writes, opens>>
             ELSE ToFile(i, JStr(outcome.text), path, openOk)
        ELSE LET parsed == IF outcome.kind = "error"
                           THEN Exc("TransportError")
                           ELSE ExtractPlain(outcome.json)
                 response == IF parsed.raised THEN JStr(<<>>) ELSE parsed.v
             IN ToFile(i, response, path, openOk)
  /\ UNCHANGED <<fileList, citydistlist, output_format, runpc, admitted, gets,
                 dirs, created, printed, warned>>

\* A task raised: run_on_each's task group cancels the others and starts no more.
RunAbort ==
  /\ FrameF
  /\ runpc = "running"
  /\ \E i \in Tasks : taskpc[i] = "raised"
  /\ runpc' = "aborting"
  /\ UNCHANGED <<fileList, citydistlist, output_format, admitted, taskpc,
                 results, gets, got, opens, dirs, created, files, writes,
                 printed, warned>>

\* The cancellation reaches task i at its await.  In html mode the task ends
\* cancelled; in text mode the bare except of line 124 catches the
\* cancellation too, and the task writes an empty file.
Cancel(i, openOk) ==
  /\ FrameF
  /\ runpc = "aborting"
  /\ i \in Tasks
  /\ taskpc[i] = "awaitGet"
  /\ IF ModeOf(output_format) = "html"
     THEN /\ taskpc' = [taskpc EXCEPT ![i] = "cancelled"]
          /\ UNCHANGED <<results, files, writes, opens>>
     ELSE ToFile(i, JStr(<<>>), FilePath(citydistlist[i], SuffixOf(output_format)),
                 openOk)
  /\ UNCHANGED <<fileList, citydistlist, output_format, runpc, admitted, gets,
                 got, dirs, created, printed, warned>>

\* Every task has ended: the exception leaves run(), nothing is printed.
RunRaise ==
  /\ FrameF
  /\ runpc = "aborting"
  /\ \A i \in Tasks : taskpc[i] # "awaitGet"
  /\ runpc' = "aborted"
  /\ UNCHANGED <<fileList, citydistlist, output_format, admitted, taskpc,
                 results, gets, got, opens, dirs, created, files, writes,
                 printed, warned>>

\* run_on_each returned every result: line 152 prints the timing summary.
RunFinish ==
  /\ FrameF
  /\ runpc = "running"
  /\ \A i \in Tasks : taskpc[i] = "done"
  /\ runpc' = "done"
  /\ printed' = TRUE
  /\ UNCHANGED <<fileList, citydistlist, output_format, admitted, taskpc,
                 results, gets, got, opens, dirs, created, files, writes, warned>>

IdleResolver ==
  /\ rpc = "idle"
  /\ fetchKind = "none"
  /\ data = JNull
  /\ cityname_list = <<>>
  /\ outfile = [exists |-> FALSE, bytes |-> <<>>]
  /\ outfile0 = [exists |-> FALSE, bytes |-> <<>>]
  /\ rlog = {}

IdlePlatform ==
  /\ localeEnc = "utf-8"
  /\ linesep = <<"LF">>

IdleRoundTrip ==
  /\ rtpc = "idle"
  /\ rtNames = <<>>
  /\ rtWriter = "to_file"
  /\ rtFile = [exists |-> FALSE, bytes |-> <<>>]
  /\ rtRead = [raised |-> FALSE, lines |-> <<>>]

NextFetcher ==
  \/ \E n \in 0..MaxNames : Main(n)
  \/ \E i \in 1..MaxNames, mkOk \in BOOLEAN : ScrapeStart(i, mkOk)
  \/ \E i \in 1..MaxNames, o \in GetOutcomes, openOk \in BOOLEAN :
       ScrapeResume(i, o, openOk)
  \/ RunAbort
  \/ \E i \in 1..MaxNames, openOk \in BOOLEAN : Cancel(i, openOk)
  \/ RunRaise
  \/ RunFinish

InitF == InitFetcher /\ IdleResolver /\ IdlePlatform /\ IdleRoundTrip

SpecFetcher == InitF /\ [][NextFetcher]_vars

(***************************************************************************)
(* Text files: open(path, "w"), write, readlines.                          *)
(***************************************************************************)
Encodings == {"utf-8", "cp1252"}
LineSeps == {<<"LF">>, <<"CR", "LF">>}

\* The bytes of one character in an encoding.
EncodeChar(ch, enc) ==
  CASE ch = "a" -> <<"61">>
    [] ch = "b" -> <<"62">>
    [] ch = "w" -> <<"77">>
    [] ch = "/" -> <<"2F">>
    [] ch = "CR" -> <<"0D">>
    [] ch = "LF" -> <<"0A">>
    [] ch = "eacute" -> IF enc = "utf-8" THEN <<"C3", "A9">> ELSE <<"E9">>

RECURSIVE EncodeText(_, _)
EncodeText(text, enc) ==
  IF text = <<>> THEN <<>>
  ELSE EncodeChar(Head(text), enc) \o EncodeText(Tail(text), enc)

\* A text file written with newline=None: every "\n" becomes os.linesep.
RECURSIVE TranslateOut(_, _)
TranslateOut(text, sep) ==
  IF text = <<>> THEN <<>>
  ELSE (IF Head(text) = "LF" THEN sep ELSE <<Head(text)>>)
       \o TranslateOut(Tail(text), sep)

\* for line in content: file.write(f"{line}\n")
RECURSIVE LinesText(_)
LinesText(list) ==
  IF list = <<>> THEN <<>>
  ELSE Head(list) \o <<"LF">> \o LinesText(Tail(list))

\* The bytes a text-mode file holds after the writes of LinesText.
WriteLines(list, enc, sep) == EncodeText(TranslateOut(LinesText(list), sep), enc)

\* UTF-8 decoding of the bytes; ok is FALSE on a UnicodeDecodeError.
RECURSIVE DecodeUtf8(_)
DecodeUtf8(bytes) ==
  IF bytes = <<>> THEN [ok |-> TRUE, text |-> <<>>]
  ELSE LET b == Head(bytes)
           one(ch) == LET rest == DecodeUtf8(Tail(bytes))
                      IN [ok |-> rest.ok, text |-> <<ch>> \o rest.text]
       IN CASE b = "61" -> one("a")
            [] b = "62" -> one("b")
            [] b = "77" -> one("w")
            [] b = "2F" -> one("/")
            [] b = "0D" -> one("CR")
            [] b = "0A" -> one("LF")
            [] b = "C3" ->
                 IF Len(bytes) >= 2 /\ bytes[2] = "A9"
                 THEN LET rest == DecodeUtf8(Tail(Tail(bytes)))
                      IN [ok |-> rest.ok, text |-> <<"eacute">> \o rest.text]
                 ELSE [ok |-> FALSE, text |-> <<>>]
            [] OTHER -> [ok |-> FALSE, text |-> <<>>]

\* A text file read with newline=None: "\r\n" and "\r" become "\n".
RECURSIVE TranslateIn(_)
TranslateIn(text) ==
  IF text = <<>> THEN <<>>
  ELSE IF Head(text) = "CR"
       THEN IF Len(text) >= 2 /\ text[2] = "LF"
            THEN <<"LF">> \o TranslateIn(Tail(Tail(text)))
            ELSE <<"LF">> \o TranslateIn(Tail(text))
       ELSE <<Head(text)>> \o TranslateIn(Tail(text))

\* readlines(): the text cut after every "\n"; each line keeps its "\n".
RECURSIVE ReadLines(_, _)
ReadLines(text, cur) ==
  IF text = <<>> THEN (IF cur = <<>> THEN <<>> ELSE <<cur>>)
  ELSE IF Head(text) = "LF"
       THEN <<cur \o <<"LF">> >> \o ReadLines(Tail(text), <<>>)
       ELSE ReadLines(Tail(text), cur \o <<Head(text)>>)

\* c.replace('\n', '')
StripLF(line) == SelectSeq(line, LAMBDA ch : ch # "LF")

\* read_txt(src): the rows of a UTF-8 text file, without their newlines.
ReadTxt(bytes) ==
  LET dec == DecodeUtf8(bytes) IN
  IF ~dec.ok THEN [raised |-> TRUE, lines |-> <<>>]
  ELSE LET rows == ReadLines(TranslateIn(dec.text), <<>>)
       IN [raised |-> FALSE, lines |-> [i \in 1..Len(rows) |-> StripLF(rows[i])]]

(***************************************************************************)
(* The Name Resolver: src/src/query_wikidata.py                            *)
(***************************************************************************)
Urls ==
  { <<"w", "/", "a">>, <<"w", "/", "a", "/", "b">>, <<"w", "/", "eacute">>,
    <<"w", "/">> }

Binding(url) ==
  JObj(<< <<"article",
            JObj(<< <<"type", JStr(<<"u">>)>>, <<"value", JStr(url)>> >>)>> >>)

\* What a binding of the result can be: well formed, with no article field,
\* with no value field.
Items ==
  {Binding(u) : u \in Urls}
    \cup {JObj(<<>>), JObj(<< <<"article", JObj(<<>>)>> >>)}

ResultOf(bindings) ==
  JObj(<< <<"head", JObj(<<>>)>>,
          <<"results", JObj(<< <<"bindings", bindings>> >>)>> >>)

\* The JSON values the endpoint's body can parse to.
DataSet ==
  { JNull, JObj(<<>>), JObj(<< <<"head", JObj(<<>>)>> >>),
    JObj(<< <<"results", JObj(<<>>)>> >>) }
    \cup {ResultOf(JArr(b)) : b \in UNION {[1..n -> Items] : n \in 0..MaxBindings}}

\* What requests.get and response.json() can do (lines 66-69): a network
\* error, a non-success status, a body that is not JSON (response.json()
\* raises requests' JSONDecodeError, which is a RequestException), a JSON body.
FetchOutcomes ==
  { [kind |-> "network", json |-> Exc("RequestException")],
    [kind |-> "status", json |-> Exc("none")],
    [kind |-> "notjson", json |-> Exc("RequestException")] }
    \cup {[kind |-> "ok", json |-> Val(d)] : d \in DataSet}

\* An except clause that catches nothing.
CaughtNever(exc) == FALSE

\* except requests.RequestException (line 75)
Caught(exc) == exc = "RequestException"

\* name.split("/")[-1]
RECURSIVE LastSegment(_)
LastSegment(str) ==
  IF str = <<>> THEN <<>>
  ELSE IF str[Len(str)] = "/" THEN <<>>
  ELSE LastSegment(SubSeq(str, 1, Len(str) - 1)) \o <<str[Len(str)]>>

ListVal(l) == [raised |-> FALSE, exc |-> "", list |-> l]
ListExc(e) == [raised |-> TRUE, exc |-> e, list |-> <<>>]

\* [item['article']['value'] for item in bindings], then split("/")[-1] of each.
RECURSIVE NamesOfItems(_)
NamesOfItems(items) ==
  IF items = <<>> THEN ListVal(<<>>)
  ELSE LET a == Subscript(Head(items), "article") IN
    IF a.raised THEN ListExc(a.exc)
    ELSE LET v == Subscript(a.v, "value") IN
      IF v.raised THEN ListExc(v.exc)
      ELSE LET rest == NamesOfItems(Tail(items)) IN
        IF rest.raised THEN rest
        ELSE IF v.v.t # "str" THEN ListExc("AttributeError")
        ELSE ListVal(<<LastSegment(v.v.s)>> \o rest.list)

\* extract_citynames(data)
ExtractCitynames(d) ==
  IF Falsy(d) THEN ListVal(<<>>)
  ELSE LET r == Subscript(d, "results") IN
    IF r.raised THEN ListExc(r.exc)
    ELSE LET b == Subscript(r.v, "bindings") IN
      IF b.raised THEN ListExc(b.exc)
      ELSE IF b.v.t = "arr" THEN NamesOfItems(b.v.arr)
      ELSE IF b.v.t \in {"obj", "str"} /\ Falsy(b.v) THEN ListVal(<<>>)
      ELSE ListExc("TypeError")

\* open(filename, "a"): the writes follow what the file held.
SavedBytesAppend(old, list, enc, sep) == old \o WriteLines(list, enc, sep)

\* save_citynames: open(filename, "w") in the locale's encoding, one write per
\* city: what the file holds afterwards.
SavedBytes(old, list, enc, sep) == WriteLines(list, enc, sep)

\* A guard that lets every list through.
TruthyAlways(list) == TRUE

\* if cityname_list: (line 143)
Truthy(list) == list # <<>>

OldBytes == <<"62", "0A", "62", "0A", "62", "0A", "62", "0A", "62", "0A">>

InitResolver ==
  /\ rpc = "start"
  /\ fetchKind = "none"
  /\ data = JNull
  /\ cityname_list = <<>>
  /\ outfile0 \in {[exists |-> FALSE, bytes |-> <<>>],
                   [exists |-> TRUE, bytes |-> OldBytes]}
  /\ outfile = outfile0
  /\ rlog = {}

InitPlatform ==
  /\ localeEnc \in Encodings
  /\ linesep \in LineSeps

FrameR == UNCHANGED <<fetcherVars, platformVars, roundTripVars>>

\* process_citynames_for_language, lines 140-141: the info line, then
\* fetch_citynames_for_language (lines 65-77).
Fetch(o) ==
  /\ FrameR
  /\ rpc = "start"
  /\ fetchKind' = o.kind
  /\ UNCHANGED <<cityname_list, outfile, outfile0>>
  /\ IF o.kind = "network"
     THEN IF Caught(o.json.exc)
          THEN /\ rlog' = rlog \cup {"info:querying", "error:request"}
               /\ data' = JNull
               /\ rpc' = "fetched"
          ELSE /\ rlog' = rlog \cup {"info:querying"}
               /\ data' = JNull
               /\ rpc' = "raised"
     ELSE IF o.kind = "status"
     THEN /\ rlog' = rlog \cup {"info:querying", "error:status"}
          /\ data' = JNull
          /\ rpc' = "fetched"
     ELSE IF o.json.raised
     THEN IF Caught(o.json.exc)
          THEN /\ rlog' = rlog \cup {"info:querying", "error:request"}
               /\ data' = JNull
               /\ rpc' = "fetched"
          ELSE /\ rlog' = rlog \cup {"info:querying"}
               /\ data' = JNull
               /\ rpc' = "raised"
     ELSE /\ rlog' = rlog \cup {"info:querying", "info:success"}
          /\ data' = o.json.v
          /\ rpc' = "fetched"

\* line 142: cityname_list = extract_citynames(data)
ExtractStep ==
  /\ FrameR
  /\ rpc = "fetched"
  /\ LET r == ExtractCitynames(data) IN
       /\ cityname_list' = r.list
       /\ rpc' = IF r.raised THEN "raised" ELSE "extracted"
  /\ UNCHANGED <<fetchKind, data, outfile, outfile0, rlog>>

\* lines 143-146: save_citynames (lines 117-124) for a list that is not
\* empty, the warning otherwise.
SaveOrWarn(openOk) ==
  /\ FrameR
  /\ rpc = "extracted"
  /\ rpc' = "done"
  /\ IF Truthy(cityname_list)
     THEN IF openOk
          THEN /\ outfile' = [exists |-> TRUE,
                              bytes |-> SavedBytes(outfile.bytes, cityname_list,
                                                   localeEnc, linesep)]
               /\ rlog' = rlog \cup {"info:saved"}
          ELSE /\ rlog' = rlog \cup {"error:save"}
               /\ UNCHANGED outfile
     ELSE /\ rlog' = rlog \cup {"warning:nonames"}
          /\ UNCHANGED outfile
  /\ UNCHANGED <<fetchKind, data, cityname_list, outfile0>>

NextResolver ==
  \/ \E o \in FetchOutcomes : Fetch(o)
  \/ ExtractStep
  \/ \E openOk \in BOOLEAN : SaveOrWarn(openOk)

InitR == IdleFetcher /\ InitResolver /\ InitPlatform /\ IdleRoundTrip

SpecResolver == InitR /\ [][NextResolver]_vars

(***************************************************************************)
(* A Name List written one name per line and read back with read_txt.      *)
(***************************************************************************)
NameStrings ==
  { <<>>, <<"a">>, <<"a", "b">>, <<"eacute">>, <<"a", "CR", "b">> }

InitRoundTrip ==
  /\ rtpc = "start"
  /\ rtNames \in UNION {[1..n -> NameStrings] : n \in 0..MaxList}
  /\ rtWriter \in {"save_citynames", "to_file"}
  /\ rtFile = [exists |-> FALSE, bytes |-> <<>>]
  /\ rtRead = [raised |-> FALSE, lines |-> <<>>]

FrameT == UNCHANGED <<fetcherVars, resolverVars, platformVars>>

\* to_file(content, path, dump=False): open(path, 'w', encoding='utf-8'), one
\* write per line (lines 91-94).
ToFileLines(list, sep) == WriteLines(list, "utf-8", sep)

\* The list is written by save_citynames or by to_file(dump=False).
WriteList ==
  /\ FrameT
  /\ rtpc = "start"
  /\ rtpc' = "written"
  /\ rtFile' = [exists |-> TRUE,
                bytes |-> IF rtWriter = "save_citynames"
                          THEN SavedBytes(rtFile.bytes, rtNames, localeEnc, linesep)
                          ELSE ToFileLines(rtNames, linesep)]
  /\ UNCHANGED <<rtNames, rtWriter, rtRead>>

\* read_txt of the file written.
ReadBack ==
  /\ FrameT
  /\ rtpc = "written"
  /\ rtpc' = "read"
  /\ rtRead' = ReadTxt(rtFile.bytes)
  /\ UNCHANGED <<rtNames, rtWriter, rtFile>>

NextRoundTrip == WriteList \/ ReadBack

InitT == IdleFetcher /\ IdleResolver /\ InitPlatform /\ InitRoundTrip

SpecRoundTrip == InitT /\ [][NextRoundTrip]_vars

(***************************************************************************)
(* Claims about the Article Fetcher, checked under SpecFetcher.            *)
(***************************************************************************)
Recognized == output_format \in {"html", "text"}
Started == runpc \notin {"idle", "main"}
OwnSuffix == IF output_format = "html" THEN "_html.txt" ELSE "_plain.txt"
OwnPath(i) == <<citydistlist[i], citydistlist[i], OwnSuffix>>
Occurrences(title) == Cardinality({i \in Tasks : citydistlist[i] = title})

\* The response has the shape {query: {pages: {<id>: {extract: <string>}}}}.
WellFormed(o) ==
  /\ o.kind = "response"
  /\ ~o.json.raised
  /\ o.json = PagesBody(OnePage(JStr(Extract)))

\* C2 as stated: with an unrecognized output mode the run aborts and nothing
\* at all has been created on disk at the abort: no directory, no request,
\* no output file.
C2_NothingCreatedAtAbort ==
  (~Recognized /\ runpc \in {"aborting", "aborted"}) =>
    /\ created = {}
    /\ \A i \in Tasks : gets[i] = 0
    /\ \A p \in AllPaths : writes[p] = 0

\* C2 as amended: with an unrecognized output mode no request is sent and no
\* output file is written, every started task raises, a run over a non-empty
\* list never completes nor prints its summary, and the first task raised
\* when the run has aborted; the only things created on disk are the
\* directories of the names whose tasks were started.
C2_AbortsWithoutRequestOrFile ==
  (~Recognized /\ Started) =>
    /\ \A i \in Tasks :
         /\ gets[i] = 0
         /\ opens[i] = 0
         /\ taskpc[i] \in {"pending", "raised"}
         /\ i <= admitted => taskpc[i] = "raised"
    /\ \A p \in AllPaths : writes[p] = 0 /\ ~files[p].exists
    /\ created \subseteq {citydistlist[i] : i \in 1..admitted}
    /\ citydistlist # <<>> => runpc # "done" /\ ~printed
    /\ runpc = "aborted" => taskpc[1] = "raised"

\* An aborted run in mode "xml" whose first task raised the ValueError after
\* it had created its directory.
C2_Witness ==
  /\ output_format = "xml"
  /\ runpc = "aborted"
  /\ results[1].exc = "ValueError"
  /\ citydistlist[1] \in created

\* C3: with a recognized output mode no failure of a single name's
\* processing propagates out of its scrape task, and the batch does not fail.
C3_NoFailurePropagates ==
  Recognized =>
    /\ \A i \in Tasks : taskpc[i] # "raised"
    /\ runpc \notin {"aborting", "aborted"}

\* C4: in plain-text mode a task whose request failed or whose body has not
\* the expected shape returns the empty string, raises nothing and leaves its
\* file existing and empty; a task with a well-formed body leaves the extract
\* in its file (names that occur once, so that no other task writes the file).
C4_PlainTextDegradesToEmpty ==
  output_format = "text" =>
    \A i \in Tasks :
      (got[i].kind # "none" /\ Occurrences(citydistlist[i]) = 1) =>
        /\ taskpc[i] = "done"
        /\ files[OwnPath(i)].exists
        /\ IF WellFormed(got[i])
           THEN /\ results[i] = Val(JStr(Extract))
                /\ files[OwnPath(i)].content = Extract
           ELSE /\ results[i] = Val(JStr(<<>>))
                /\ files[OwnPath(i)].content = <<>>

\* C9: a run with a recognized mode in which every request receives a
\* response does not abort; at completion every entry has had exactly one
\* GET and has its directory and its output file; the summary is printed
\* only after every task has finished.
C9_RunCompletes ==
  (Recognized /\ \A i \in Tasks : got[i].kind # "error") =>
    /\ runpc \notin {"aborting", "aborted"}
    /\ \A i \in Tasks : taskpc[i] # "raised"
    /\ runpc = "done" =>
         \A i \in Tasks :
           /\ gets[i] = 1
           /\ citydistlist[i] \in dirs
           /\ files[OwnPath(i)].exists
    /\ printed => \A i \in Tasks : taskpc[i] = "done"

\* C10 as stated: every output file is written at most once during the run.
C10_WrittenAtMostOnce == \A p \in AllPaths : writes[p] <= 1

\* C10 as amended: every task opens one file at most once, the file
\* <name>/<name>_<mode>.txt of its own entry, so a file is written once per
\* task of its name that got that far: at most once when the names of the
\* list are pairwise distinct, and the directories the run creates are those
\* of its entries.
C10_TasksWriteOwnFileOnce ==
  Started =>
    /\ \A i \in Tasks : opens[i] <= 1
    /\ \A p \in AllPaths :
         writes[p] = Cardinality({i \in Tasks : opens[i] = 1 /\ OwnPath(i) = p})
    /\ \A p \in AllPaths : files[p].exists <=> writes[p] > 0
    /\ created \subseteq {citydistlist[i] : i \in Tasks}
    /\ (\A i, j \in Tasks : i # j => citydistlist[i] # citydistlist[j]) =>
         \A p \in AllPaths : writes[p] <= 1

\* A completed run over a list that names one city twice: the two tasks wrote
\* the same file.
C10_Witness ==
  /\ runpc = "done"
  /\ \E i, j \in Tasks :
       /\ i # j
       /\ citydistlist[i] = citydistlist[j]
       /\ opens[i] = 1 /\ opens[j] = 1
       /\ writes[OwnPath(i)] = 2

(***************************************************************************)
(* Claims about the Name Resolver, checked under SpecResolver.             *)
(***************************************************************************)
HasKey(d, k) == d.t = "obj" /\ \E i \in 1..Len(d.obj) : d.obj[i][1] = k
Field(d, k) == d.obj[CHOOSE i \in 1..Len(d.obj) : d.obj[i][1] = k][2]

\* The result has the shape {results: {bindings: [{article: {value: <str>}}]}}.
WellFormedResult(d) ==
  /\ HasKey(d, "results")
  /\ HasKey(Field(d, "results"), "bindings")
  /\ Field(Field(d, "results"), "bindings").t = "arr"
  /\ LET b == Field(Field(d, "results"), "bindings").arr IN
       \A i \in 1..Len(b) :
         /\ HasKey(b[i], "article")
         /\ HasKey(Field(b[i], "article"), "value")
         /\ Field(Field(b[i], "article"), "value").t = "str"

BindingUrls(d) ==
  LET b == Field(Field(d, "results"), "bindings").arr
  IN [i \in 1..Len(b) |-> Field(Field(b[i], "article"), "value").s]

\* seg is what follows the last "/" of url (all of url when it has none).
IsFinalSegment(seg, url) ==
  /\ \A k \in 1..Len(seg) : seg[k] # "/"
  /\ \/ seg = url
     \/ \E k \in 1..Len(url) : url[k] = "/" /\ seg = SubSeq(url, k + 1, Len(url))

\* The bytes of a line: its characters in the platform's encoding.
RECURSIVE BytesOfLines(_)
BytesOfLines(lines) ==
  IF lines = <<>> THEN <<>>
  ELSE EncodeText(Head(lines), localeEnc) \o EncodeText(linesep, localeEnc)
       \o BytesOfLines(Tail(lines))

QueryFailed ==
  \/ fetchKind \in {"network", "status", "notjson"}
  \/ fetchKind = "ok" /\ ~WellFormedResult(data)

\* C6 as stated: however the graph query fails, the process ends normally
\* with an empty Name List and a logged failure.
C6_EveryFailureDegrades ==
  (rpc \in {"done", "raised"} /\ QueryFailed) =>
    /\ rpc = "done"
    /\ cityname_list = <<>>
    /\ rlog \cap {"error:request", "error:status", "warning:nonames"} # {}

\* C6 as amended: a network error, a non-success status or a body that is not
\* JSON ends the process normally with an empty Name List, a logged error and
\* the warning, the file untouched; a JSON result that is null or empty ends
\* it normally with the warning; a result that lacks the results or bindings
\* key, or has a binding lacking article or value, raises to the caller.
C6_TransportFailuresDegrade ==
  /\ (rpc \notin {"start", "idle"} /\ fetchKind \in {"network", "status", "notjson"}) =>
       /\ rpc # "raised"
       /\ cityname_list = <<>>
       /\ rlog \cap {"error:request", "error:status"} # {}
       /\ outfile = outfile0
       /\ rpc = "done" => "warning:nonames" \in rlog
  /\ (rpc \notin {"start", "idle"} /\ fetchKind = "ok" /\ data \in {JNull, JObj(<<>>)}) =>
       /\ rpc # "raised"
       /\ cityname_list = <<>>
       /\ outfile = outfile0
       /\ rpc = "done" => "warning:nonames" \in rlog
  /\ (rpc \in {"done", "raised"} /\ fetchKind = "ok"
        /\ data \notin {JNull, JObj(<<>>)} /\ ~WellFormedResult(data)) =>
       rpc = "raised"

\* A network error ended in a normal end of the process.
C6_Witness ==
  /\ rpc = "done"
  /\ fetchKind = "network"
  /\ "error:request" \in rlog
  /\ "warning:nonames" \in rlog

\* C7: when the extracted Name List is empty the process attempts no write:
\* the file is as it was before the run and the warning is logged.
C7_EmptyListWritesNothing ==
  (rpc = "done" /\ cityname_list = <<>>) =>
    /\ outfile = outfile0
    /\ "warning:nonames" \in rlog
    /\ rlog \cap {"info:saved", "error:save"} = {}

\* A query that failed with a non-success status ended over a file that
\* existed before the run.
C7_Witness ==
  /\ rpc = "done"
  /\ cityname_list = <<>>
  /\ outfile0.exists
  /\ fetchKind = "status"

(***************************************************************************)
(* The round trip, checked under SpecRoundTrip.                            *)
(***************************************************************************)
\* C8: a Name List written one name per line and read back with read_txt is
\* read as it was written: same names, same order, same length.
C8_RoundTrip ==
  rtpc = "read" => (~rtRead.raised /\ rtRead.lines = rtNames)

====
